---- MODULE Spec2Model ----
(***************************************************************************)
(* mol2grep: the mol2 record reader (src/src/mol2.rs) and the grep / split *)
(* pipelines built on it (src/src/mol2utils.rs).                           *)
(*                                                                         *)
(* A stream is the sequence of physical lines read_line returns.  A line   *)
(* is a record [k, s, e, c]:                                               *)
(*   k = "name"    matches regex_name; s is the trimmed text left after    *)
(*                 the header prefix is removed                            *)
(*   k = "energy"  matches regex_energy (and not regex_name); e is the     *)
(*                 value of the remainder, s = "bad" when the remainder    *)
(*                 does not parse as f64                                   *)
(*   k = "mol"     matches regex_tripos_molecule (^@<TRIPOS>MOLECULE)      *)
(*   k = "sec"     matches regex_tripos only (any other ^@<TRIPOS> marker) *)
(*   k = "text"    matches none of them; c are its whitespace-separated    *)
(*                 tokens when all are integers, s = "x" when some token   *)
(*                 is not a number                                         *)
(* A payload (Mol2.lines) is the sequence of the lines appended to it.     *)
(* Energies are integers (fixed-point units of f64 values).                *)
(***************************************************************************)
EXTENDS Integers, Sequences, FiniteSets, TLC

(* ------------------------------ bounds --------------------------------- *)
\* longest stream drawn line by line from the alphabet
MaxArb == 4
\* most records in a generated well-formed stream
MaxRecs == 2
\* most next() calls made on a reader after it first returned None
MaxExtraCalls == 2
\* most input files of a pipeline run
MaxFiles == 2
\* largest concurrency limit: the producers par_bridge runs side by side
PoolSize == 2
\* largest num_files of a split run
MaxShards == 2
\* the energies a probed record may carry: -MaxEnergy..MaxEnergy
MaxEnergy == 6
\* largest tolerance probed
MaxTol == 2
\* most physical lines of a query file
MaxQLines == 3
\* most files and pool threads together in the runs checked for termination
MaxLoad == 4

(* ------------------------- program constants --------------------------- *)
\* Mol2::new: energy: 100.0
DefaultEnergy == 100
\* x.parse::<u8>(): the largest count a counts line may hold
U8Max == 255

VARIABLES
    stream,     \* reader: the lines of the decompressed file
    gen,        \* reader: how stream was drawn: "arb", "wf", "cut", "dmg" or "hdr"
    descs,      \* reader: the record descriptors a generated stream was built from
    g,          \* reader: self.reader position, self.line and get_mol2's locals
    yielded,    \* reader: the Mol2 values next() has returned, in order
    hist,       \* reader: one entry per finished next() call
    op,         \* pipeline: "grep", "split" or "table" ("" outside the pipelines)
    files,      \* pipeline: input_files, the paths
    table,      \* grep: the loaded QueryFormat
    tol,        \* grep: the tolerance
    num_files,  \* split: the number of output files
    num_threads,    \* pipeline: the caller's concurrency limit (the pool's size)
    iter,       \* pipeline: how many files the shared iterator has handed out
    wk,         \* pipeline: per producer: st, file, pos, nm (num_molecules), np (num_passing)
    chan,       \* pipeline: the records sent and not yet received
    num_molecules,  \* grep: the shared Mutex counter of records processed
    num_passing,    \* grep: the shared Mutex counter of records accepted
    written,    \* grep: the payloads written to writer_file, in order; table: the lines written
    writer_vec, \* split: per output file, the payloads written to it, in order
    count_vec,  \* split: per output file, the number of records written
    split_count,    \* split: the consumer's local num_molecules
    drained,    \* pipeline: per received record its file, index in the file and shard
    result,     \* pipeline: "running", then "ok" once the operation has returned Ok
                \* ("start" before table has written its header; "loading" before
                \* grep has loaded its query, then "err" or "panic" if that failed)
    reported,   \* pipeline: what the operation returned
    merges,     \* grep: one entry per addition to a shared counter, in order
    probe,      \* matching: the record the predicate is applied to
    verdict,    \* matching: "unset", then "pass" or "fail"
    write_header,   \* table: the caller's write_header flag
    ligand_id,  \* table: the consumer's row counter
    query,      \* query: the query file: readable, and its physical lines
    qr,         \* query: the QueryReader: position, self.line, the table being built
    other,      \* identity: the record probe is compared with
    ident       \* identity: what eq, hash and the lookups returned, once done

rvars == <<stream, gen, descs, g, yielded, hist>>

pvars == <<op, files, table, tol, num_files, num_threads, iter, wk, chan, num_molecules, num_passing,
           written, writer_vec, count_vec, split_count, drained, result, reported, merges>>

mvars == <<probe, verdict>>

tvars == <<write_header, ligand_id>>

qvars == <<query, qr>>

ivars == <<other, ident>>

xvars == <<tvars, qvars, ivars>>

vars == <<rvars, pvars, mvars, xvars>>

(* ------------------------------- lines --------------------------------- *)
NameLine(id) == [k |-> "name", s |-> id, e |-> 0, c |-> <<>>]
EnergyLine(v) == [k |-> "energy", s |-> "", e |-> v, c |-> <<>>]
BadEnergyLine == [k |-> "energy", s |-> "bad", e |-> 0, c |-> <<>>]
MolLine == [k |-> "mol", s |-> "", e |-> 0, c |-> <<>>]
SecLine == [k |-> "sec", s |-> "", e |-> 0, c |-> <<>>]
CountsLine(c) == [k |-> "text", s |-> "", e |-> 0, c |-> c]
TextLine == [k |-> "text", s |-> "x", e |-> 0, c |-> <<>>]
\* self.line after clear(): the empty string, which no physical line is
Cleared == [k |-> "", s |-> "", e |-> 0, c |-> <<>>]

\* regex_name.is_match
IsName(l) == l.k = "name"
\* regex_energy.is_match
IsEnergy(l) == l.k = "energy"
\* regex_tripos.is_match
IsTripos(l) == l.k \in {"mol", "sec"}
\* regex_tripos_molecule.is_match
IsTriposMolecule(l) == l.k = "mol"

\* regex_name.replace_all(line, "").trim()
NameOf(l) == l.s
\* regex_energy.replace_all(line, "").trim().parse::<f64>() is Ok
EnergyParses(l) == l.s # "bad"
EnergyOf(l) == l.e

\* mutant of CountsParse: any integer token is taken as a count
CountsParseAnyInteger(l) ==
    /\ l.k \in {"text", ""}
    /\ l.s = ""

\* line.trim().split_whitespace().map(|x| x.parse::<u8>()): every token is Ok
CountsParse(l) ==
    /\ l.k \in {"text", ""}
    /\ l.s = ""
    /\ \A i \in 1..Len(l.c) : l.c[i] \in 0..U8Max
CountsOf(l) == l.c

\* mol.add_line(line): lines += line
AddLine(lines, l) == IF l = Cleared THEN lines ELSE Append(lines, l)

(* ------------------------------ Mol2 ----------------------------------- *)
\* Mol2::new()
NewMol == [name |-> "", energy |-> DefaultEnergy, lines |-> <<>>]

\* mutant of Fresh: a record starts with energy 0
FreshZeroEnergy(pos, line) ==
    [pos |-> pos, line |-> line, name |-> "", energy |-> 0,
     lines |-> <<>>, tripos_state |-> 0, tripos_counts |-> <<>>, ret |-> "loop"]

\* get_mol2's entry: a fresh mol, tripos_state = 0, tripos_counts = []
Fresh(pos, line) ==
    [pos |-> pos, line |-> line, name |-> "", energy |-> DefaultEnergy,
     lines |-> <<>>, tripos_state |-> 0, tripos_counts |-> <<>>, ret |-> "loop"]

MolOf(st) == [name |-> st.name, energy |-> st.energy, lines |-> st.lines]

(* --------------------------- get_mol2 ---------------------------------- *)
\* mutant of LoopTail: the line is not appended at the bottom of the loop
LoopTailDropsLine(st) ==
    IF st.tripos_state > 0 /\ st.tripos_state >= Len(st.tripos_counts)
    THEN [st EXCEPT !.ret = "panic"]
    ELSE IF st.tripos_state > 0 /\ st.tripos_counts[st.tripos_state + 1] = 0
    THEN [st EXCEPT !.ret = "some"]
    ELSE st

\* mutant of LoopTail: the termination test does not look at tripos_state
LoopTailYieldsAtZero(st) ==
    IF st.tripos_state >= Len(st.tripos_counts)
    THEN IF st.tripos_state > 0 THEN [st EXCEPT !.ret = "panic"]
         ELSE [st EXCEPT !.lines = AddLine(@, st.line)]
    ELSE IF st.tripos_counts[st.tripos_state + 1] = 0
    THEN [st EXCEPT !.ret = "some"]
    ELSE [st EXCEPT !.lines = AddLine(@, st.line)]

\* mutant of LoopTail: a count that is not declared is read as zero
LoopTailMissingIsZero(st) ==
    IF st.tripos_state > 0 /\ st.tripos_state >= Len(st.tripos_counts)
    THEN [st EXCEPT !.ret = "some"]
    ELSE IF st.tripos_state > 0 /\ st.tripos_counts[st.tripos_state + 1] = 0
    THEN [st EXCEPT !.ret = "some"]
    ELSE [st EXCEPT !.lines = AddLine(@, st.line)]

\* the end of one loop iteration: the termination test, then add_line
LoopTail(st) ==
    IF st.tripos_state > 0 /\ st.tripos_state >= Len(st.tripos_counts)
    THEN [st EXCEPT !.ret = "panic"]
    ELSE IF st.tripos_state > 0 /\ st.tripos_counts[st.tripos_state + 1] = 0
    THEN [st EXCEPT !.ret = "some"]
    ELSE [st EXCEPT !.lines = AddLine(@, st.line)]

\* mutant of MoleculeBranch: end of stream inside the prefetch flushes the
\* partial record instead of returning None
MoleculeBranchFlushes(s, st) ==
    LET left == Len(s) - st.pos
        withMarker == AddLine(st.lines, st.line)
    IN  IF left < 2
        THEN [st EXCEPT !.pos = Len(s), !.line = Cleared, !.ret = "some",
                        !.lines = withMarker \o SubSeq(s, st.pos + 1, Len(s))]
        ELSE LET last == s[st.pos + 2]
                 st2 == [st EXCEPT !.pos = @ + 2,
                                   !.lines = withMarker \o SubSeq(s, st.pos + 1, st.pos + 2)]
             IN  IF ~CountsParse(last)
                 THEN [st2 EXCEPT !.line = last, !.ret = "panic"]
                 ELSE LoopTail([st2 EXCEPT !.line = Cleared,
                                           !.tripos_counts = CountsOf(last)])

\* mutant of MoleculeBranch: one line is prefetched and holds the counts
MoleculeBranchOneLine(s, st) ==
    LET left == Len(s) - st.pos
        withMarker == AddLine(st.lines, st.line)
    IN  IF left < 1
        THEN [st EXCEPT !.pos = Len(s), !.line = Cleared, !.ret = "none",
                        !.lines = withMarker \o SubSeq(s, st.pos + 1, Len(s))]
        ELSE LET last == s[st.pos + 1]
                 st2 == [st EXCEPT !.pos = @ + 1,
                                   !.lines = withMarker \o SubSeq(s, st.pos + 1, st.pos + 1)]
             IN  IF ~CountsParse(last)
                 THEN [st2 EXCEPT !.line = last, !.ret = "panic"]
                 ELSE LoopTail([st2 EXCEPT !.line = Cleared,
                                           !.tripos_counts = CountsOf(last)])

\* the MOLECULE branch: the marker line, two more lines, the counts
MoleculeBranch(s, st) ==
    LET left == Len(s) - st.pos
        withMarker == AddLine(st.lines, st.line)
    IN  IF left < 2
        THEN [st EXCEPT !.pos = Len(s), !.line = Cleared, !.ret = "none",
                        !.lines = withMarker \o SubSeq(s, st.pos + 1, Len(s))]
        ELSE LET last == s[st.pos + 2]
                 st2 == [st EXCEPT !.pos = @ + 2,
                                   !.lines = withMarker \o SubSeq(s, st.pos + 1, st.pos + 2)]
             IN  IF ~CountsParse(last)
                 THEN [st2 EXCEPT !.line = last, !.ret = "panic"]
                 ELSE LoopTail([st2 EXCEPT !.line = Cleared,
                                           !.tripos_counts = CountsOf(last)])

\* mutant of SectionBranch: tripos_state is not advanced after the section
SectionBranchNoAdvance(s, st) ==
    LET left == Len(s) - st.pos
        withMarker == AddLine(st.lines, st.line)
    IN  IF st.tripos_state >= Len(st.tripos_counts)
        THEN [st EXCEPT !.lines = withMarker, !.ret = "panic"]
        ELSE LET n == st.tripos_counts[st.tripos_state + 1]
             IN  IF left < n
                 THEN [st EXCEPT !.pos = Len(s), !.line = Cleared, !.ret = "none",
                                 !.lines = withMarker \o SubSeq(s, st.pos + 1, Len(s))]
                 ELSE LoopTail([st EXCEPT !.pos = @ + n, !.line = Cleared,
                                          !.lines = withMarker \o SubSeq(s, st.pos + 1, st.pos + n)])

\* mutant of SectionBranch: every section takes the first declared count
SectionBranchUsesFirstCount(s, st) ==
    LET left == Len(s) - st.pos
        withMarker == AddLine(st.lines, st.line)
    IN  IF st.tripos_state >= Len(st.tripos_counts)
        THEN [st EXCEPT !.lines = withMarker, !.ret = "panic"]
        ELSE LET n == st.tripos_counts[1]
             IN  IF left < n
                 THEN [st EXCEPT !.pos = Len(s), !.line = Cleared, !.ret = "none",
                                 !.lines = withMarker \o SubSeq(s, st.pos + 1, Len(s))]
                 ELSE LoopTail([st EXCEPT !.pos = @ + n, !.line = Cleared,
                                          !.lines = withMarker \o SubSeq(s, st.pos + 1, st.pos + n),
                                          !.tripos_state = @ + 1])

\* mutant of SectionBranch: a Name header inside the body sets the name
SectionBranchReadsNames(s, st) ==
    LET left == Len(s) - st.pos
        withMarker == AddLine(st.lines, st.line)
    IN  IF st.tripos_state >= Len(st.tripos_counts)
        THEN [st EXCEPT !.lines = withMarker, !.ret = "panic"]
        ELSE LET n == st.tripos_counts[st.tripos_state + 1]
             IN  IF left < n
                 THEN [st EXCEPT !.pos = Len(s), !.line = Cleared, !.ret = "none",
                                 !.lines = withMarker \o SubSeq(s, st.pos + 1, Len(s))]
                 ELSE LoopTail([st EXCEPT !.pos = @ + n, !.line = Cleared,
                                          !.lines = withMarker \o SubSeq(s, st.pos + 1, st.pos + n),
                                          !.name = IF n > 0 /\ IsName(s[st.pos + n])
                                                   THEN NameOf(s[st.pos + n]) ELSE @,
                                          !.tripos_state = @ + 1])

\* any other section marker: the marker line, tripos_counts[tripos_state] lines
SectionBranch(s, st) ==
    LET left == Len(s) - st.pos
        withMarker == AddLine(st.lines, st.line)
    IN  IF st.tripos_state >= Len(st.tripos_counts)
        THEN [st EXCEPT !.lines = withMarker, !.ret = "panic"]
        ELSE LET n == st.tripos_counts[st.tripos_state + 1]
             IN  IF left < n
                 THEN [st EXCEPT !.pos = Len(s), !.line = Cleared, !.ret = "none",
                                 !.lines = withMarker \o SubSeq(s, st.pos + 1, Len(s))]
                 ELSE LoopTail([st EXCEPT !.pos = @ + n, !.line = Cleared,
                                          !.lines = withMarker \o SubSeq(s, st.pos + 1, st.pos + n),
                                          !.tripos_state = @ + 1])

\* one iteration of get_mol2's loop on stream s
LoopBody(s, st) ==
    IF st.pos >= Len(s)
    THEN [st EXCEPT !.line = Cleared, !.ret = "none"]
    ELSE LET l == s[st.pos + 1]
             st1 == [st EXCEPT !.pos = @ + 1, !.line = l]
         IN  IF IsName(l) THEN LoopTail([st1 EXCEPT !.name = NameOf(l)])
             ELSE IF IsEnergy(l)
                  THEN IF EnergyParses(l)
                       THEN LoopTail([st1 EXCEPT !.energy = EnergyOf(l)])
                       ELSE [st1 EXCEPT !.ret = "panic"]
             ELSE IF IsTripos(l)
                  THEN IF IsTriposMolecule(l)
                       THEN MoleculeBranch(s, st1)
                       ELSE SectionBranch(s, st1)
             ELSE LoopTail(st1)

RECURSIVE RunLoop(_, _)
RunLoop(s, st) == IF st.ret # "loop" THEN st ELSE RunLoop(s, LoopBody(s, st))

\* Mol2Reader::get_mol2 (Iterator::next) from reader position pos
GetMol2(s, pos) == RunLoop(s, Fresh(pos, Cleared))

(* ------------------------- the reader's inputs ------------------------- *)
\* the lines an arbitrary stream is drawn from
Alphabet ==
    {NameLine("a"), EnergyLine(5), BadEnergyLine, MolLine, SecLine, TextLine,
     CountsLine(<<0>>), CountsLine(<<0, 0>>), CountsLine(<<1, 0>>), CountsLine(<<256>>)}

ArbStreams == UNION {[1..n -> Alphabet] : n \in 0..MaxArb}

\* a record as a generator writes it: a Name header, an optional Total Energy
\* header, the MOLECULE marker, a title line, the counts line (the line count
\* of each section, then 0) and the sections, each a marker and its lines
Rec(id, he, en, secs) == [id |-> id, he |-> he, en |-> en, secs |-> secs]

RecordShapes ==
    {Rec("a", TRUE, 5, <<0>>), Rec("b", FALSE, 0, <<1>>), Rec("a", FALSE, 0, <<1, 1>>),
     Rec("b", TRUE, 7, <<0, 2>>), Rec("a", FALSE, 0, <<1, 0>>), Rec("b", TRUE, 2, <<2, 1, 1>>)}

RECURSIVE Flatten(_)
Flatten(ss) == IF ss = <<>> THEN <<>> ELSE Head(ss) \o Flatten(Tail(ss))

SectionLines(n) == <<SecLine>> \o [i \in 1..n |-> TextLine]

RecordLines(d) ==
    <<NameLine(d.id)>>
    \o (IF d.he THEN <<EnergyLine(d.en)>> ELSE <<>>)
    \o <<MolLine, TextLine, CountsLine(d.secs \o <<0>>)>>
    \o Flatten([i \in 1..Len(d.secs) |-> SectionLines(d.secs[i])])

StreamOf(ds) == Flatten([i \in 1..Len(ds) |-> RecordLines(ds[i])])

DescSeqs == UNION {[1..n -> RecordShapes] : n \in 0..MaxRecs}

\* what a damaged file holds in place of a Total Energy header or of a counts
\* line: an energy that is not a number; a count of 256, a negative count, a
\* token that is not a number
DamagedLines(l) ==
    IF IsEnergy(l) THEN {BadEnergyLine}
    ELSE IF l.k = "text" /\ l.c # <<>>
         THEN {CountsLine(<<256, 0>>), CountsLine(<<-1, 0>>), TextLine}
    ELSE {}

\* the streams of generated records with one such line damaged
DamagedStreams(ds) ==
    {[StreamOf(ds) EXCEPT ![i] = b] :
        <<i, b>> \in {p \in (1..Len(StreamOf(ds))) \X {BadEnergyLine, CountsLine(<<256, 0>>),
                                                      CountsLine(<<-1, 0>>), TextLine} :
                         p[2] \in DamagedLines(StreamOf(ds)[p[1]])}}

\* what a title line or a section's body line may look like: a Name header,
\* a Total Energy header (well-formed or not), a section marker
HeaderLikeLines == {NameLine("z"), EnergyLine(9), BadEnergyLine, MolLine, SecLine}

\* the streams of generated records with one title or body line replaced by
\* a line that looks like a header or a marker
HeaderLikeStreams(ds) ==
    {[StreamOf(ds) EXCEPT ![p[1]] = p[2]] :
        p \in {q \in (1..Len(StreamOf(ds))) \X HeaderLikeLines : StreamOf(ds)[q[1]] = TextLine}}

(* --------------------------- the reader -------------------------------- *)
\* the pipeline's variables, but for the query, while no pipeline runs
PipeIdleRest ==
    /\ op = ""
    /\ files = <<>>
    /\ num_files = 0
    /\ num_threads = 0
    /\ iter = 0
    /\ wk = <<>>
    /\ chan = <<>>
    /\ num_molecules = 0
    /\ num_passing = 0
    /\ written = <<>>
    /\ writer_vec = <<>>
    /\ count_vec = <<>>
    /\ split_count = 0
    /\ drained = <<>>
    /\ result = ""
    /\ reported = <<>>
    /\ merges = <<>>

\* the matching variables while no predicate is probed
MatchIdle ==
    /\ probe = NewMol
    /\ verdict = ""

\* the table operation's variables while no table run is modelled
TableIdle ==
    /\ write_header = FALSE
    /\ ligand_id = 0

\* a QueryReader that has read nothing: self.line is empty, no table is built
QrNew == [pos |-> 0, line |-> <<>>, shape |-> "", keys |-> {}, target |-> <<>>, ret |-> "idle"]

\* the query variables while no query file is loaded
QueryIdle ==
    /\ query = [readable |-> FALSE, lines |-> <<>>]
    /\ qr = QrNew

\* nothing compared yet
IdentUnset ==
    [done |-> FALSE, eq |-> FALSE, hash |-> FALSE, found |-> FALSE, other_found |-> FALSE]

\* the identity variables while no two records are compared
IdentIdle ==
    /\ other = NewMol
    /\ ident = IdentUnset

\* the pipeline's variables while only a reader runs
PipeIdle ==
    /\ table = [shape |-> "", keys |-> {}, target |-> <<>>]
    /\ tol = 0
    /\ PipeIdleRest

InitReader ==
    /\ \/ /\ gen = "arb"
          /\ descs = <<>>
          /\ stream \in ArbStreams
       \/ /\ gen = "wf"
          /\ descs \in DescSeqs
          /\ stream = StreamOf(descs)
       \/ /\ gen = "cut"
          /\ descs \in DescSeqs \ {<<>>}
          /\ \E drop \in 1..Len(RecordLines(descs[Len(descs)])) :
                stream = SubSeq(StreamOf(descs), 1, Len(StreamOf(descs)) - drop)
       \/ /\ gen = "dmg"
          /\ descs \in DescSeqs \ {<<>>}
          /\ stream \in DamagedStreams(descs)
       \/ /\ gen = "hdr"
          /\ descs \in DescSeqs \ {<<>>}
          /\ stream \in HeaderLikeStreams(descs)
    /\ g = [Fresh(0, Cleared) EXCEPT !.ret = "idle"]
    /\ yielded = <<>>
    /\ hist = <<>>
    /\ PipeIdle
    /\ MatchIdle
    /\ TableIdle
    /\ QueryIdle
    /\ IdentIdle

NonesReturned == Cardinality({i \in 1..Len(hist) : hist[i].ret = "none"})

\* mutant of RdCall: a call made after the stream ran out reopens it
RdCallRewinds ==
    /\ g.ret \in {"idle", "some", "none"}
    /\ NonesReturned <= MaxExtraCalls
    /\ g' = Fresh(IF g.ret = "none" THEN 0 ELSE g.pos, g.line)
    /\ UNCHANGED <<stream, gen, descs, yielded, hist, pvars, mvars, xvars>>

\* the caller calls next(): get_mol2 starts with a fresh mol
RdCall ==
    /\ g.ret \in {"idle", "some", "none"}
    /\ NonesReturned <= MaxExtraCalls
    /\ g' = Fresh(g.pos, g.line)
    /\ UNCHANGED <<stream, gen, descs, yielded, hist, pvars, mvars, xvars>>

\* one iteration of get_mol2's loop; the call returns when ret leaves "loop"
RdLoop ==
    /\ g.ret = "loop"
    /\ g' = LoopBody(stream, g)
    /\ yielded' = IF g'.ret = "some" THEN Append(yielded, MolOf(g')) ELSE yielded
    /\ hist' = IF g'.ret = "loop" THEN hist
               ELSE Append(hist, [ret |-> g'.ret, pos |-> g'.pos])
    /\ UNCHANGED <<stream, gen, descs, pvars, mvars, xvars>>

NextReader == RdCall \/ RdLoop

SpecReader == InitReader /\ [][NextReader]_vars

(* ------------------------- the pipelines' inputs ----------------------- *)
File(readable, lines) == [readable |-> readable, lines |-> lines]

\* the input files a run may be given, by path: "two" holds two records,
\* "bad" one record and then a Total Energy header that does not parse,
\* "missing" cannot be opened
Paths == {"two", "bad", "missing"}

\* the paths of a run of the whole of grep: "anon" holds a record with no
\* Name header and then a record named b
FilterPaths == Paths \cup {"anon"}

FileAt(path) ==
    CASE path = "two" ->
            File(TRUE, StreamOf(<<Rec("a", TRUE, 5, <<0>>), Rec("b", TRUE, 7, <<0, 2>>)>>))
      [] path = "bad" ->
            File(TRUE, StreamOf(<<Rec("a", TRUE, 6, <<1>>)>>) \o <<NameLine("b"), BadEnergyLine>>)
      [] path = "anon" ->
            File(TRUE, Tail(RecordLines(Rec("", FALSE, 0, <<0>>)))
                       \o RecordLines(Rec("b", TRUE, 7, <<0>>)))
      [] OTHER -> File(FALSE, <<>>)

FileLists == UNION {[1..n -> Paths] : n \in 1..MaxFiles}

\* the input lists of a run of the whole of grep
FilterFileLists == FileLists \cup {<<"anon">>, <<"anon", "two">>}

Ids == {"a", "b"}

\* QueryFormat::WithoutScore(HashSet<Mol2>): Mol2 is hashed and compared by name
SetTable(keys) == [shape |-> "set", keys |-> keys, target |-> [i \in Ids |-> 0]]
\* QueryFormat::WithScore(HashMap<Mol2, f64>): target is read at the keys only
MapTable(keys, target) == [shape |-> "map", keys |-> keys, target |-> target]

Workers == 1..num_threads

(* --------------------------- the query file --------------------------- *)
\* A physical line of the query file is the sequence of its pieces: maximal
\* runs of whitespace and maximal runs of other characters, the line feed
\* read_line keeps included.
QWhite == {" ", "\t", "\n"}

RECURSIVE TrimStart(_)
TrimStart(l) == IF l # <<>> /\ Head(l) \in QWhite THEN TrimStart(Tail(l)) ELSE l

RECURSIVE TrimEnd(_)
TrimEnd(l) ==
    IF l # <<>> /\ l[Len(l)] \in QWhite THEN TrimEnd(SubSeq(l, 1, Len(l) - 1)) ELSE l

\* str::trim
Trim(l) == TrimEnd(TrimStart(l))

RECURSIVE ConcatStr(_)
\* the text of a run of pieces
ConcatStr(l) == IF l = <<>> THEN "" ELSE Head(l) \o ConcatStr(Tail(l))

\* split_items: self.line.trim().split_whitespace().collect()
SplitItems(l) == SelectSeq(Trim(l), LAMBDA piece : piece \notin QWhite)

\* the column texts energy.parse::<f64>() accepts, among those of the model
F64Tokens == {"1", "5", "7"}

F64Parses(tok) == tok \in F64Tokens

ParseF64(tok) == CASE tok = "1" -> 1 [] tok = "5" -> 5 [] tok = "7" -> 7

\* insert_to_set: table.insert(mol), mol compared by name
InsertToSet(st, name) == [st EXCEPT !.keys = @ \cup {name}]

\* mutant of InsertToMap: a key already present keeps its first value
InsertToMapKeepsFirst(st, name, energy) ==
    [st EXCEPT !.keys = @ \cup {name},
               !.target = [k \in st.keys \cup {name} |->
                              IF k \in st.keys THEN st.target[k] ELSE energy]]

\* insert_to_map: table.insert(mol, energy): a key already present keeps its
\* place and takes the new value
InsertToMap(st, name, energy) ==
    [st EXCEPT !.keys = @ \cup {name},
               !.target = [k \in st.keys \cup {name} |->
                              IF k = name THEN energy ELSE st.target[k]]]

\* mutant of ListRow: a line that trims to nothing is not inserted
ListRowSkipsBlank(st) ==
    IF Trim(st.line) = <<>> THEN st ELSE InsertToSet(st, ConcatStr(Trim(st.line)))

\* read_zinc_list on self.line: mol_with_name(&self.line) takes name.trim()
ListRow(st) == InsertToSet(st, ConcatStr(Trim(st.line)))

\* mutant of ScoreRow: a line of fewer than two columns is skipped
ScoreRowSkipsNarrow(st) ==
    LET items == SplitItems(st.line)
    IN  IF Len(items) < 2 THEN st
        ELSE IF ~F64Parses(items[2]) THEN [st EXCEPT !.ret = "panic"]
        ELSE InsertToMap(st, items[1], ParseF64(items[2]))

\* mutant of ScoreRow: a line whose energy column does not parse is skipped
ScoreRowSkipsBadEnergy(st) ==
    LET items == SplitItems(st.line)
    IN  IF Len(items) < 2 THEN [st EXCEPT !.ret = "panic"]
        ELSE IF ~F64Parses(items[2]) THEN st
        ELSE InsertToMap(st, items[1], ParseF64(items[2]))

\* read_zinc_score_table on self.line: items[0], items[1] of split_items,
\* mol_with_name_and_energy parses the second with expect
ScoreRow(st) ==
    LET items == SplitItems(st.line)
    IN  IF Len(items) < 2 THEN [st EXCEPT !.ret = "panic"]
        ELSE IF ~F64Parses(items[2]) THEN [st EXCEPT !.ret = "panic"]
        ELSE InsertToMap(st, items[1], ParseF64(items[2]))

\* QueryReader::step: the next physical line, or the empty string at the end
QrStep(q, st) ==
    IF st.pos >= Len(q.lines) THEN [st EXCEPT !.line = <<>>]
    ELSE [st EXCEPT !.line = q.lines[st.pos + 1], !.pos = @ + 1]

\* mutant of LoadQueriesHead: a first line of more than two columns is
\* taken as a 2-column line
LoadQueriesHeadAcceptsWide(q, st) ==
    LET st1 == QrStep(q, st)
        n == Len(SplitItems(st1.line))
    IN  IF n = 1 THEN ListRow([st1 EXCEPT !.shape = "set", !.ret = "loop"])
        ELSE IF n >= 2 THEN ScoreRow([st1 EXCEPT !.shape = "map", !.ret = "loop"])
        ELSE [st1 EXCEPT !.ret = "panic"]

\* mutant of LoadQueriesHead: a blank first line is skipped
LoadQueriesHeadSkipsBlank(q, st) ==
    LET st0 == QrStep(q, st)
        st1 == IF SplitItems(st0.line) = <<>> /\ st0.pos < Len(q.lines) THEN QrStep(q, st0) ELSE st0
        n == Len(SplitItems(st1.line))
    IN  IF n = 1 THEN ListRow([st1 EXCEPT !.shape = "set", !.ret = "loop"])
        ELSE IF n = 2 THEN ScoreRow([st1 EXCEPT !.shape = "map", !.ret = "loop"])
        ELSE [st1 EXCEPT !.ret = "panic"]

\* load_queries: one step, the match on the column count, and the first
\* insert of the read_zinc_* function chosen
LoadQueriesHead(q, st) ==
    LET st1 == QrStep(q, st)
        n == Len(SplitItems(st1.line))
    IN  IF n = 1 THEN ListRow([st1 EXCEPT !.shape = "set", !.ret = "loop"])
        ELSE IF n = 2 THEN ScoreRow([st1 EXCEPT !.shape = "map", !.ret = "loop"])
        ELSE [st1 EXCEPT !.ret = "panic"]

\* one iteration of the loop of read_zinc_list / read_zinc_score_table
QrLoopBody(q, st) ==
    IF st.pos >= Len(q.lines) THEN [st EXCEPT !.line = <<>>, !.ret = "ok"]
    ELSE IF st.shape = "set" THEN ListRow(QrStep(q, st))
    ELSE ScoreRow(QrStep(q, st))

RECURSIVE RunQr(_, _)
RunQr(q, st) == IF st.ret # "loop" THEN st ELSE RunQr(q, QrLoopBody(q, st))

\* load_queries from a new QueryReader
LoadQueries(q) == RunQr(q, LoadQueriesHead(q, QrNew))

\* the QueryFormat returned
TableOf(st) == IF st.shape = "set" THEN SetTable(st.keys) ELSE MapTable(st.keys, st.target)

\* the physical lines a query file is drawn from
QAlphabet ==
    {<<"\n">>, <<"a", "\n">>, <<" ", "a", " ", "\n">>, <<"b", "\n">>,
     <<"a", " ", "5", "\n">>, <<"a", "\t", "7", "\n">>, <<"b", " ", "1", "\n">>,
     <<"b", " ", "x", "\n">>, <<"a", " ", "5", " ", "z", "\n">>}

QueryFiles == {File(TRUE, ls) : ls \in UNION {[1..n -> QAlphabet] : n \in 0..MaxQLines}}

(* ----------------------------- matching -------------------------------- *)
\* grep_with_set's filter: table.contains(x)
GrepWithSetPasses(mol, tbl) == mol.name \in tbl.keys

\* mutant of GrepWithMapPasses: the comparison bounds the difference on both sides
GrepWithMapPassesTwoSided(mol, tbl, t) ==
    /\ mol.name \in tbl.keys
    /\ mol.energy - tbl.target[mol.name] <= t
    /\ tbl.target[mol.name] - mol.energy <= t

\* grep_with_map's filters: table.contains_key(x), then
\* x.get_energy() - table.get(x).unwrap() <= tol
GrepWithMapPasses(mol, tbl, t) ==
    /\ mol.name \in tbl.keys
    /\ mol.energy - tbl.target[mol.name] <= t

\* the match on the table in grep's closure
Passes(mol, tbl, t) ==
    IF tbl.shape = "set" THEN GrepWithSetPasses(mol, tbl) ELSE GrepWithMapPasses(mol, tbl, t)

(* ---------------------------- the producers ---------------------------- *)
ReaderIdle ==
    /\ stream = <<>>
    /\ gen = ""
    /\ descs = <<>>
    /\ g = [Fresh(0, Cleared) EXCEPT !.ret = "idle"]
    /\ yielded = <<>>
    /\ hist = <<>>

NewWorker == [st |-> "idle", file |-> 0, pos |-> 0, nm |-> 0, np |-> 0]

InitPipe ==
    /\ ReaderIdle
    /\ MatchIdle
    /\ TableIdle
    /\ QueryIdle
    /\ IdentIdle
    /\ files \in FileLists
    /\ num_threads \in 1..PoolSize
    /\ iter = 0
    /\ wk = [w \in Workers |-> NewWorker]
    /\ chan = <<>>
    /\ num_molecules = 0
    /\ num_passing = 0
    /\ written = <<>>
    /\ split_count = 0
    /\ drained = <<>>
    /\ result = "running"
    /\ reported = <<>>
    /\ merges = <<>>

\* the producers run the same closure and hold nothing between files, so the
\* idle ones are interchangeable: the lowest-numbered idle producer stands for
\* whichever of them moves next
LowestIdle(w) ==
    /\ wk[w].st = "idle"
    /\ \A v \in Workers : v < w => wk[v].st # "idle"

\* Iterator::next of the reader of file p that has consumed pos lines
ReaderNext ==
    [p \in FilterPaths |-> [pos \in 0..Len(FileAt(p).lines) |-> GetMol2(FileAt(p).lines, pos)]]

\* a producer takes the next file from the shared iterator and opens it:
\* Mol2Reader::new(&x).unwrap()
WorkerTake(w) ==
    /\ LowestIdle(w)
    /\ iter < Len(files)
    /\ iter' = iter + 1
    /\ wk' = [wk EXCEPT ![w] =
                IF FileAt(files[iter + 1]).readable
                THEN [st |-> "read", file |-> iter + 1, pos |-> 0, nm |-> 0, np |-> 0]
                ELSE [NewWorker EXCEPT !.st = "panicked"]]
    /\ UNCHANGED <<rvars, mvars, xvars, op, files, merges, table, tol, num_files, num_threads, chan, num_molecules, num_passing,
                   written, writer_vec, count_vec, split_count, drained, result, reported>>

\* the producer pulls one record from its reader: grep counts it and sends it
\* when it passes, split and table send it; at None grep goes on to merge its
\* subtotals
WorkerNext(w) ==
    /\ wk[w].st = "read"
    /\ LET r == ReaderNext[files[wk[w].file]][wk[w].pos]
           mol == MolOf(r)
           pass == op # "grep" \/ Passes(mol, table, tol)
       IN  /\ wk' = [wk EXCEPT ![w] =
                       IF r.ret = "some"
                       THEN [@ EXCEPT !.pos = r.pos, !.nm = @ + 1,
                                      !.np = IF pass THEN @ + 1 ELSE @]
                       ELSE IF r.ret = "none"
                       THEN IF op = "grep" THEN [@ EXCEPT !.pos = r.pos, !.st = "merge_molecules"]
                            ELSE NewWorker
                       ELSE [NewWorker EXCEPT !.st = "panicked"]]
           /\ chan' = IF r.ret = "some" /\ pass
                      THEN Append(chan, [mol |-> mol, file |-> wk[w].file, idx |-> wk[w].nm + 1])
                      ELSE chan
    /\ UNCHANGED <<rvars, mvars, xvars, op, files, merges, table, tol, num_files, num_threads, iter, num_molecules, num_passing,
                   written, writer_vec, count_vec, split_count, drained, result, reported>>

\* a producer whose first addition goes to the accepted counter
WorkerMergeAcceptedFirst(w) ==
    /\ wk[w].st = "merge_molecules"
    /\ num_passing' = num_passing + wk[w].np
    /\ merges' = Append(merges, [counter |-> "num_passing", file |-> wk[w].file,
                                 pos |-> wk[w].pos, add |-> wk[w].np])
    /\ wk' = [wk EXCEPT ![w].st = "merge_passing"]
    /\ UNCHANGED <<rvars, mvars, xvars, op, files, table, tol, num_files, num_threads, iter, chan, num_molecules,
                   written, writer_vec, count_vec, split_count, drained, result, reported>>

\* *num_molecules.lock().unwrap() += nm
WorkerMergeMolecules(w) ==
    /\ wk[w].st = "merge_molecules"
    /\ num_molecules' = num_molecules + wk[w].nm
    /\ merges' = Append(merges, [counter |-> "num_molecules", file |-> wk[w].file,
                                 pos |-> wk[w].pos, add |-> wk[w].nm])
    /\ wk' = [wk EXCEPT ![w].st = "merge_passing"]
    /\ UNCHANGED <<rvars, mvars, xvars, op, files, table, tol, num_files, num_threads, iter, chan, num_passing,
                   written, writer_vec, count_vec, split_count, drained, result, reported>>

\* *num_passing.lock().unwrap() += np
WorkerMergePassing(w) ==
    /\ wk[w].st = "merge_passing"
    /\ num_passing' = num_passing + wk[w].np
    /\ merges' = Append(merges, [counter |-> "num_passing", file |-> wk[w].file,
                                 pos |-> wk[w].pos, add |-> wk[w].np])
    /\ wk' = [wk EXCEPT ![w] = NewWorker]
    /\ UNCHANGED <<rvars, mvars, xvars, op, files, table, tol, num_files, num_threads, iter, chan, num_molecules,
                   written, writer_vec, count_vec, split_count, drained, result, reported>>

\* the iterator is exhausted: the producer ends and its Sender clone is dropped
WorkerExit(w) ==
    /\ LowestIdle(w)
    /\ iter >= Len(files)
    /\ wk' = [wk EXCEPT ![w] = [NewWorker EXCEPT !.st = "done"]]
    /\ UNCHANGED <<rvars, mvars, xvars, op, files, merges, table, tol, num_files, num_threads, iter, chan, num_molecules,
                   num_passing, written, writer_vec, count_vec, split_count, drained,
                   result, reported>>

\* a channel that reports closure as soon as one Sender is dropped
SendersDroppedAnyOne == \E w \in Workers : wk[w].st \in {"done", "panicked"}

\* every Sender is dropped: each producer has ended or has panicked (a panic
\* unwinds the producer and drops its Sender; the spawned thread is detached)
SendersDropped == \A w \in Workers : wk[w].st \in {"done", "panicked"}

(* ------------------------------- grep ---------------------------------- *)
\* the query table and tolerance of a run: a set of names, or names with
\* target energies
GrepQueries ==
    {[table |-> SetTable({"a"}), tol |-> 0],
     [table |-> MapTable({"a", "b"}, [i \in Ids |-> IF i = "a" THEN 5 ELSE 1]), tol |-> 1]}

InitGrep ==
    /\ InitPipe
    /\ op = "grep"
    /\ \E q \in GrepQueries : table = q.table /\ tol = q.tol
    /\ num_files = 0
    /\ writer_vec = <<>>
    /\ count_vec = <<>>

\* for mol in channel_recv: writer_file.write_all(mol.get_lines().as_bytes())
GrepRecv ==
    /\ result = "running"
    /\ chan # <<>>
    /\ written' = Append(written, Head(chan).mol.lines)
    /\ drained' = Append(drained, [file |-> Head(chan).file, idx |-> Head(chan).idx, shard |-> 0])
    /\ chan' = Tail(chan)
    /\ UNCHANGED <<rvars, mvars, xvars, op, files, merges, table, tol, num_files, num_threads, iter, wk, num_molecules,
                   num_passing, writer_vec, count_vec, split_count, result, reported>>

\* the channel is empty and disconnected: the loop ends, the two counters are
\* printed and Ok(num_passing) is returned
GrepFinish ==
    /\ result = "running"
    /\ chan = <<>>
    /\ SendersDropped
    /\ result' = "ok"
    /\ reported' = <<num_molecules, num_passing>>
    /\ UNCHANGED <<rvars, mvars, xvars, op, files, merges, table, tol, num_files, num_threads, iter, wk, chan, num_molecules,
                   num_passing, written, writer_vec, count_vec, split_count, drained>>

NextGrep ==
    \/ \E w \in Workers :
          \/ WorkerTake(w)
          \/ WorkerNext(w)
          \/ WorkerMergeMolecules(w)
          \/ WorkerMergePassing(w)
          \/ WorkerExit(w)
    \/ GrepRecv
    \/ GrepFinish

SpecGrep == InitGrep /\ [][NextGrep]_vars

(* --------------------- grep from its first statement ------------------- *)
\* the query files of a whole grep run: a list of names, names with energies,
\* a table with an energy that is not a number, a first line of three
\* columns, a blank first line, and a path that cannot be opened
FilterQueries ==
    {File(TRUE, <<<<"a", "\n">>>>),
     File(TRUE, <<<<"a", " ", "5", "\n">>, <<"b", " ", "1", "\n">>>>),
     File(TRUE, <<<<"a", " ", "5", "\n">>, <<"b", " ", "x", "\n">>>>),
     File(TRUE, <<<<"a", " ", "5", " ", "z", "\n">>>>),
     File(TRUE, <<<<"\n">>, <<"a", "\n">>>>),
     File(TRUE, <<<<"a", "\n">>, <<"\n">>>>),
     File(FALSE, <<>>)}

\* a producer slot before thread::spawn
Unspawned == [NewWorker EXCEPT !.st = "unspawned"]

InitFilter ==
    /\ ReaderIdle
    /\ MatchIdle
    /\ TableIdle
    /\ IdentIdle
    /\ op = "grep"
    /\ files \in FilterFileLists
    /\ query \in FilterQueries
    /\ qr = QrNew
    /\ table = [shape |-> "", keys |-> {}, target |-> <<>>]
    /\ tol \in 0..1
    /\ num_files = 0
    /\ num_threads \in 1..PoolSize
    /\ iter = 0
    /\ wk = [w \in Workers |-> Unspawned]
    /\ chan = <<>>
    /\ num_molecules = 0
    /\ num_passing = 0
    /\ written = <<>>
    /\ writer_vec = <<>>
    /\ count_vec = <<>>
    /\ split_count = 0
    /\ drained = <<>>
    /\ result = "loading"
    /\ reported = <<>>
    /\ merges = <<>>

\* mutant of GrepLoad: the producers are spawned before the query is loaded
GrepLoadSpawnsFirst ==
    /\ result = "loading"
    /\ wk' = [w \in Workers |-> NewWorker]
    /\ IF ~query.readable
       THEN /\ result' = "err"
            /\ UNCHANGED <<qr, table>>
       ELSE /\ qr' = LoadQueries(query)
            /\ IF qr'.ret = "ok"
               THEN /\ table' = TableOf(qr')
                    /\ result' = "running"
               ELSE /\ result' = "panic"
                    /\ table' = table
    /\ UNCHANGED <<rvars, mvars, tvars, ivars, query, op, files, merges, tol, num_files, num_threads, iter, chan,
                   num_molecules, num_passing, written, writer_vec, count_vec, split_count,
                   drained, reported>>

\* grep up to thread::spawn: QueryReader::new(query_filename)?, load_queries()?,
\* the writer, the channel, the counters, then the producers are spawned.  An
\* Err returns from grep, a panic of load_queries unwinds the calling thread.
GrepLoad ==
    /\ result = "loading"
    /\ IF ~query.readable
       THEN /\ result' = "err"
            /\ UNCHANGED <<qr, table, wk>>
       ELSE /\ qr' = LoadQueries(query)
            /\ IF qr'.ret = "ok"
               THEN /\ table' = TableOf(qr')
                    /\ result' = "running"
                    /\ wk' = [w \in Workers |-> NewWorker]
               ELSE /\ result' = "panic"
                    /\ UNCHANGED <<table, wk>>
    /\ UNCHANGED <<rvars, mvars, tvars, ivars, query, op, files, merges, tol, num_files, num_threads, iter, chan,
                   num_molecules, num_passing, written, writer_vec, count_vec, split_count,
                   drained, reported>>

NextFilter ==
    \/ GrepLoad
    \/ \E w \in Workers :
          \/ WorkerTake(w)
          \/ WorkerNext(w)
          \/ WorkerMergeMolecules(w)
          \/ WorkerMergePassing(w)
          \/ WorkerExit(w)
    \/ GrepRecv
    \/ GrepFinish

SpecFilter == InitFilter /\ [][NextFilter]_vars

(* ------------------------------- split --------------------------------- *)
InitSplit ==
    /\ InitPipe
    /\ op = "split"
    /\ table = SetTable({})
    /\ tol = 0
    /\ num_files \in 1..MaxShards
    /\ writer_vec = [i \in 1..num_files |-> <<>>]
    /\ count_vec = [i \in 1..num_files |-> 0]

\* mutant of FileId: the shards are filled from the highest index down
FileIdDescending(n, nf) == nf - 1 - (n % nf)

\* mutant of FileId: the running count is used after it was incremented
FileIdAfterIncrement(n, nf) == (n + 1) % nf

\* file_id = num_molecules % num_files
FileId(n, nf) == n % nf

\* mutant of SplitRecv: the consumer takes the newest record of the channel
SplitRecvTakesNewest ==
    /\ result = "running"
    /\ chan # <<>>
    /\ LET file_id == FileId(split_count, num_files)
           newest == chan[Len(chan)]
       IN  /\ writer_vec' = [writer_vec EXCEPT ![file_id + 1] = Append(@, newest.mol.lines)]
           /\ count_vec' = [count_vec EXCEPT ![file_id + 1] = @ + 1]
           /\ drained' = Append(drained, [file |-> newest.file, idx |-> newest.idx,
                                          shard |-> file_id])
    /\ split_count' = split_count + 1
    /\ chan' = SubSeq(chan, 1, Len(chan) - 1)
    /\ UNCHANGED <<rvars, mvars, xvars, op, files, merges, table, tol, num_files, num_threads, iter, wk, num_molecules,
                   num_passing, written, result, reported>>

\* for mol in channel_recv: write to writer_vec[file_id], count it
SplitRecv ==
    /\ result = "running"
    /\ chan # <<>>
    /\ LET file_id == FileId(split_count, num_files)
       IN  /\ writer_vec' = [writer_vec EXCEPT ![file_id + 1] = Append(@, Head(chan).mol.lines)]
           /\ count_vec' = [count_vec EXCEPT ![file_id + 1] = @ + 1]
           /\ drained' = Append(drained, [file |-> Head(chan).file, idx |-> Head(chan).idx,
                                          shard |-> file_id])
    /\ split_count' = split_count + 1
    /\ chan' = Tail(chan)
    /\ UNCHANGED <<rvars, mvars, xvars, op, files, merges, table, tol, num_files, num_threads, iter, wk, num_molecules,
                   num_passing, written, result, reported>>

\* the channel is empty and disconnected: Ok(count_vec) is returned
SplitFinish ==
    /\ result = "running"
    /\ chan = <<>>
    /\ SendersDropped
    /\ result' = "ok"
    /\ reported' = count_vec
    /\ UNCHANGED <<rvars, mvars, xvars, op, files, merges, table, tol, num_files, num_threads, iter, wk, chan, num_molecules,
                   num_passing, written, writer_vec, count_vec, split_count, drained>>

NextSplit ==
    \/ \E w \in Workers :
          \/ WorkerTake(w)
          \/ WorkerNext(w)
          \/ WorkerExit(w)
    \/ SplitRecv
    \/ SplitFinish

SpecSplit == InitSplit /\ [][NextSplit]_vars

(* ------------------------------- table --------------------------------- *)
\* format!("ligand_id\tname\tenergy\n")
HeaderRow == [kind |-> "header", id |-> 0, name |-> "name", energy |-> 0]

\* format!("{}\t{}\t{}\n", ligand_id, mol.get_name(), mol.get_energy())
Row(id, mol) == [kind |-> "row", id |-> id, name |-> mol.name, energy |-> mol.energy]

\* mutant of InitTable: the files are walked by the pool, as in grep and split
InitTableInPool ==
    /\ ReaderIdle
    /\ MatchIdle
    /\ QueryIdle
    /\ IdentIdle
    /\ op = "table"
    /\ files \in FileLists
    /\ table = SetTable({})
    /\ tol = 0
    /\ num_files = 0
    /\ num_threads \in 1..PoolSize
    /\ iter = 0
    /\ wk = [w \in 1..num_threads |-> NewWorker]
    /\ chan = <<>>
    /\ num_molecules = 0
    /\ num_passing = 0
    /\ written = <<>>
    /\ writer_vec = <<>>
    /\ count_vec = <<>>
    /\ split_count = 0
    /\ drained = <<>>
    /\ result = "start"
    /\ reported = <<>>
    /\ merges = <<>>
    /\ write_header \in BOOLEAN
    /\ ligand_id = 0

\* table spawns one producer thread, which walks input_files in order with a
\* sequential for_each: a pool of one
InitTable ==
    /\ ReaderIdle
    /\ MatchIdle
    /\ QueryIdle
    /\ IdentIdle
    /\ op = "table"
    /\ files \in FileLists
    /\ table = SetTable({})
    /\ tol = 0
    /\ num_files = 0
    /\ num_threads = 1
    /\ iter = 0
    /\ wk = [w \in 1..1 |-> NewWorker]
    /\ chan = <<>>
    /\ num_molecules = 0
    /\ num_passing = 0
    /\ written = <<>>
    /\ writer_vec = <<>>
    /\ count_vec = <<>>
    /\ split_count = 0
    /\ drained = <<>>
    /\ result = "start"
    /\ reported = <<>>
    /\ merges = <<>>
    /\ write_header \in BOOLEAN
    /\ ligand_id = 0

\* the writer is opened and, if write_header, the header line is written
TableHeader ==
    /\ result = "start"
    /\ written' = IF write_header THEN Append(written, HeaderRow) ELSE written
    /\ result' = "running"
    /\ UNCHANGED <<rvars, mvars, xvars, op, files, merges, table, tol, num_files, num_threads, iter, wk, chan,
                   num_molecules, num_passing, writer_vec, count_vec, split_count, drained, reported>>

\* for mol in channel_recv: write the row, ligand_id += 1
TableRecv ==
    /\ result = "running"
    /\ chan # <<>>
    /\ written' = Append(written, Row(ligand_id, Head(chan).mol))
    /\ ligand_id' = ligand_id + 1
    /\ drained' = Append(drained, [file |-> Head(chan).file, idx |-> Head(chan).idx, shard |-> 0])
    /\ chan' = Tail(chan)
    /\ UNCHANGED <<rvars, mvars, qvars, ivars, write_header, op, files, merges, table, tol, num_files, num_threads,
                   iter, wk, num_molecules, num_passing, writer_vec, count_vec, split_count,
                   result, reported>>

\* the channel is empty and disconnected: "Total Poses: ligand_id" is printed
\* and Ok(()) is returned
TableFinish ==
    /\ result = "running"
    /\ chan = <<>>
    /\ SendersDropped
    /\ result' = "ok"
    /\ reported' = <<ligand_id>>
    /\ UNCHANGED <<rvars, mvars, xvars, op, files, merges, table, tol, num_files, num_threads, iter, wk, chan,
                   num_molecules, num_passing, written, writer_vec, count_vec, split_count, drained>>

NextTable ==
    \/ \E w \in Workers :
          \/ WorkerTake(w)
          \/ WorkerNext(w)
          \/ WorkerExit(w)
    \/ TableHeader
    \/ TableRecv
    \/ TableFinish

SpecTable == InitTable /\ [][NextTable]_vars

(* ------------------ the operations under fair scheduling --------------- *)
\* the reader of stream s, called from pos until it stops, ends with None
RECURSIVE ParsesToEnd(_, _)
ParsesToEnd(s, pos) ==
    LET r == GetMol2(s, pos)
    IN  IF r.ret = "some" THEN ParsesToEnd(s, r.pos) ELSE r.ret = "none"

\* every file of the list opens and parses to its end
AllFilesParse ==
    \A i \in 1..Len(files) :
        FileAt(files[i]).readable /\ ParsesToEnd(FileAt(files[i]).lines, 0)

\* one of the three operations is started on a list of files that all parse,
\* with at most MaxLoad files and pool threads together
InitOps ==
    /\ InitGrep \/ InitSplit \/ InitTable
    /\ AllFilesParse
    /\ Len(files) + num_threads <= MaxLoad

\* the pool threads: the closure run by for_each_with / for_each
ProducerSteps ==
    \E w \in Workers :
        \/ WorkerTake(w)
        \/ WorkerNext(w)
        \/ op = "grep" /\ WorkerMergeMolecules(w)
        \/ op = "grep" /\ WorkerMergePassing(w)
        \/ WorkerExit(w)

\* the calling thread: the loop over rx.recv() and the return
ConsumerSteps ==
    \/ op = "grep" /\ (GrepRecv \/ GrepFinish)
    \/ op = "split" /\ (SplitRecv \/ SplitFinish)
    \/ op = "table" /\ (TableHeader \/ TableRecv \/ TableFinish)

NextOps == ProducerSteps \/ ConsumerSteps

\* the pool threads and the calling thread are operating-system threads: each
\* keeps running while it has a step to take; no step waits on anything but
\* the channel
SpecOpsFair ==
    InitOps /\ [][NextOps]_vars /\ WF_vars(ProducerSteps) /\ WF_vars(ConsumerSteps)

(* ------------------------------ identity ------------------------------- *)
\* mutant of MolEq: the energy takes part in the comparison
MolEqWithEnergy(a, b) == a.name = b.name /\ a.energy = b.energy

\* impl PartialEq for Mol2: self.name == other.name
MolEq(a, b) == a.name = b.name

\* impl Hash for Mol2: what hash() feeds the Hasher, self.name.hash(state)
MolHash(a) == <<a.name>>

\* the Mol2 keys a table holds, as mol_with_name and mol_with_name_and_energy
\* built them
KeyMols(tbl) ==
    {[name |-> k, energy |-> IF tbl.shape = "map" THEN tbl.target[k] ELSE DefaultEnergy,
      lines |-> <<>>] : k \in tbl.keys}

\* HashSet::contains / HashMap::contains_key: a stored key of the same hash
\* that is equal to x
HashContains(tbl, x) == \E key \in KeyMols(tbl) : MolHash(key) = MolHash(x) /\ MolEq(key, x)

\* the records compared: ids in and out of the tables, the empty id, several
\* energies and payloads
IdentMols ==
    [name : Ids \cup {""}, energy : {5, 7, DefaultEnergy}, lines : {<<>>, <<TextLine>>}]

IdentTables == {SetTable({"a"}), MapTable({"a", "b"}, [i \in Ids |-> IF i = "a" THEN 5 ELSE 1])}

InitIdent ==
    /\ ReaderIdle
    /\ PipeIdleRest
    /\ TableIdle
    /\ QueryIdle
    /\ table \in IdentTables
    /\ tol = 0
    /\ probe \in IdentMols
    /\ verdict = ""
    /\ other \in IdentMols
    /\ ident = IdentUnset

\* probe == other, their hashes, and the lookup of each in the table
IdentApply ==
    /\ ~ident.done
    /\ ident' = [done |-> TRUE,
                 eq |-> MolEq(probe, other),
                 hash |-> MolHash(probe) = MolHash(other),
                 found |-> HashContains(table, probe),
                 other_found |-> HashContains(table, other)]
    /\ UNCHANGED <<rvars, pvars, mvars, tvars, qvars, other>>

NextIdent == IdentApply

SpecIdent == InitIdent /\ [][NextIdent]_vars

(* ------------------------- the query loader alone ---------------------- *)
InitQuery ==
    /\ ReaderIdle
    /\ PipeIdle
    /\ MatchIdle
    /\ TableIdle
    /\ IdentIdle
    /\ query \in QueryFiles
    /\ qr = QrNew

\* the caller calls load_queries
QrLoad ==
    /\ qr.ret = "idle"
    /\ qr' = LoadQueriesHead(query, qr)
    /\ UNCHANGED <<rvars, pvars, mvars, tvars, ivars, query>>

\* one more line of the query file, or its end
QrLoop ==
    /\ qr.ret = "loop"
    /\ qr' = QrLoopBody(query, qr)
    /\ UNCHANGED <<rvars, pvars, mvars, tvars, ivars, query>>

NextQuery == QrLoad \/ QrLoop

SpecQuery == InitQuery /\ [][NextQuery]_vars

(* ---------------------------- matching alone --------------------------- *)
MatchTables ==
    {MapTable({"a"}, [i \in Ids |-> 3]),
     MapTable({"a", "b"}, [i \in Ids |-> IF i = "a" THEN -2 ELSE 0])}

MatchProbes ==
    [name : Ids \cup {""}, energy : (-MaxEnergy..MaxEnergy) \cup {DefaultEnergy}, lines : {<<>>}]

InitMatch ==
    /\ ReaderIdle
    /\ PipeIdleRest
    /\ TableIdle
    /\ QueryIdle
    /\ IdentIdle
    /\ table \in MatchTables
    /\ tol \in 0..MaxTol
    /\ probe \in MatchProbes
    /\ verdict = "unset"

\* grep_with_map's filter chain applied to one record
MatchApply ==
    /\ verdict = "unset"
    /\ verdict' = IF GrepWithMapPasses(probe, table, tol) THEN "pass" ELSE "fail"
    /\ UNCHANGED <<rvars, pvars, xvars, probe>>

NextMatch == MatchApply

SpecMatch == InitMatch /\ [][NextMatch]_vars

(* ===================== claims about the reader ========================= *)
Payloads == [i \in 1..Len(yielded) |-> yielded[i].lines]

SomeEntries == {i \in 1..Len(hist) : hist[i].ret = "some"}

\* the reader position when the last record was yielded
LastBoundary ==
    IF SomeEntries = {} THEN 0
    ELSE hist[CHOOSE i \in SomeEntries : \A j \in SomeEntries : j <= i].pos

NameCount(s) == Cardinality({i \in 1..Len(s) : IsName(s[i])})

\* C4: the payloads of the yielded records, concatenated in yield order, are
\* exactly the lines of the stream up to the boundary of the last yielded
\* record, and the i-th record's payload is the run of lines between the
\* boundaries of records i-1 and i: every consumed line once, in stream order.
C4_PayloadsArePrefix ==
    /\ Flatten(Payloads) = SubSeq(stream, 1, LastBoundary)
    /\ \A i \in 1..Len(yielded) :
          /\ hist[i].ret = "some"
          /\ yielded[i].lines =
                SubSeq(stream, (IF i = 1 THEN 0 ELSE hist[i - 1].pos) + 1, hist[i].pos)

C4_Witness ==
    /\ Len(yielded) = 2
    /\ \E i \in 1..Len(yielded[2].lines) : IsEnergy(yielded[2].lines[i])
    /\ Len(yielded[1].lines) >= 7
    /\ IsName(yielded[1].lines[1])

ReaderStopped == g.ret \in {"none", "panic"}

LaterSectionsNonEmpty(d) == \A i \in 2..Len(d.secs) : d.secs[i] >= 1

C6_NoneIsPermanent ==
    [][NonesReturned > 0 =>
          /\ yielded' = yielded
          /\ Len(hist') > Len(hist) => hist'[Len(hist')].ret = "none"]_vars

C6_Witness ==
    /\ NonesReturned >= 3
    /\ Len(yielded) >= 1

\* the lines left in the stream after the one the next iteration reads
LeftAfterNext == Len(stream) - (g.pos + 1)

\* the stream ends at the top of the loop, inside the two-line MOLECULE
\* prefetch, or inside the declared body of a section
EndsMidRecord ==
    /\ g.ret = "loop"
    /\ \/ g.pos >= Len(stream)
       \/ /\ g.pos < Len(stream)
          /\ IsTriposMolecule(stream[g.pos + 1])
          /\ LeftAfterNext < 2
       \/ /\ g.pos < Len(stream)
          /\ stream[g.pos + 1].k = "sec"
          /\ g.tripos_state < Len(g.tripos_counts)
          /\ LeftAfterNext < g.tripos_counts[g.tripos_state + 1]

\* C7: when the stream ends in the middle of a record the call returns None
\* (not a failure), yields nothing, and leaves the reader at end of stream.
C7_TruncatedYieldsNone ==
    [][EndsMidRecord =>
          /\ g'.ret = "none"
          /\ yielded' = yielded
          /\ hist' = Append(hist, [ret |-> "none", pos |-> Len(stream)])]_vars

C7_Witness ==
    /\ gen = "cut"
    /\ g.ret = "none"
    /\ Len(yielded) >= 1
    /\ g.tripos_state >= 1
    /\ Len(g.lines) >= 5

\* the ids of the Name header lines in a payload
NamesIn(lines) == {NameOf(lines[i]) : i \in {j \in 1..Len(lines) : IsName(lines[j])}}

\* the values of the Total Energy header lines in a payload
EnergiesIn(lines) == {EnergyOf(lines[i]) : i \in {j \in 1..Len(lines) : IsEnergy(lines[j])}}

\* C19: a yielded record's id is that of a Name line of its payload and its
\* energy the value of a Total Energy line of its payload; with no Name line
\* the id is the empty string, with no Total Energy line the energy is 100,
\* and the record is yielded all the same.  On generated records the i-th
\* record yielded carries the id and energy the i-th record was written with.
C19_IdAndEnergyFromHeaders ==
    \A i \in 1..Len(yielded) :
        /\ yielded[i].name \in NamesIn(yielded[i].lines) \cup {""}
        /\ NamesIn(yielded[i].lines) = {} => yielded[i].name = ""
        /\ yielded[i].energy \in EnergiesIn(yielded[i].lines) \cup {100}
        /\ EnergiesIn(yielded[i].lines) = {} => yielded[i].energy = 100
        /\ gen \in {"wf", "cut", "dmg"} =>
              /\ yielded[i].name = descs[i].id
              /\ yielded[i].energy = (IF descs[i].he THEN descs[i].en ELSE 100)

C19_Witness ==
    /\ gen = "wf"
    /\ Len(yielded) = 2
    /\ yielded[1].name = "b"
    /\ yielded[1].energy = 7
    /\ yielded[2].name = "a"
    /\ EnergiesIn(yielded[2].lines) = {}
    /\ yielded[2].energy = 100

\* a Total Energy header whose remainder is not a float
MalformedEnergy(l) == l.k = "energy" /\ l.s = "bad"

\* a counts line with a token that is not an unsigned integer in 0..255
MalformedCounts(l) ==
    l.k # "text" \/ l.s # "" \/ \E i \in 1..Len(l.c) : l.c[i] < 0 \/ l.c[i] > 255

\* the call is about to read a malformed Total Energy header, or a MOLECULE
\* marker whose counts line, two lines on, is malformed
ReadsMalformed ==
    /\ g.ret = "loop"
    /\ g.pos < Len(stream)
    /\ \/ MalformedEnergy(stream[g.pos + 1])
       \/ /\ IsTriposMolecule(stream[g.pos + 1])
          /\ LeftAfterNext >= 2
          /\ MalformedCounts(stream[g.pos + 3])

\* C20: a Total Energy header that does not parse, or a counts token outside
\* 0..255 (256, a negative number, a non-numeric token), is fatal: the call
\* fails, yields no record, and the reader yields nothing afterwards; a count
\* is never reduced modulo 256.
C20_MalformedRecordIsFatal ==
    [][/\ ReadsMalformed => (g'.ret = "panic" /\ yielded' = yielded)
       /\ g.ret = "panic" => (g' = g /\ yielded' = yielded)
       /\ \A i \in 1..Len(g'.tripos_counts) : g'.tripos_counts[i] \in 0..255]_vars

C20_Witness ==
    /\ gen = "dmg"
    /\ g.ret = "panic"
    /\ Len(yielded) = 1
    /\ g.line = CountsLine(<<256, 0>>)
    /\ Len(descs) = 2

\* section_index > 0 and counts[section_index] = 0, on the parser's locals
YieldCondition(st) ==
    /\ st.tripos_state > 0
    /\ st.tripos_state < Len(st.tripos_counts)
    /\ st.tripos_counts[st.tripos_state + 1] = 0

\* C21: after a line has been handled the record is yielded exactly when
\* section_index > 0 and counts[section_index] = 0; otherwise the parser goes
\* on consuming lines into the same record; nothing is yielded while
\* section_index = 0.
C21_YieldRule ==
    [][(g.ret = "loop" /\ g'.ret \in {"loop", "some"}) =>
          /\ g'.ret = "some" <=> YieldCondition(g')
          /\ g'.tripos_state = 0 => g'.ret = "loop"
          /\ g'.ret = "loop" =>
                /\ yielded' = yielded
                /\ Len(g'.lines) >= Len(g.lines)
                /\ SubSeq(g'.lines, 1, Len(g.lines)) = g.lines
          /\ g'.ret = "some" => yielded' = Append(yielded, MolOf(g'))]_vars

C21_Witness ==
    /\ g.ret = "some"
    /\ g.tripos_state = 3
    /\ Len(yielded) = 2
    /\ yielded[1].lines # yielded[2].lines

\* the call is about to read a MOLECULE marker that two more lines follow,
\* the second a well-formed counts line
ReadsMolecule ==
    /\ g.ret = "loop"
    /\ g.pos < Len(stream)
    /\ stream[g.pos + 1].k = "mol"
    /\ LeftAfterNext >= 2
    /\ ~MalformedCounts(stream[g.pos + 3])

\* C22: on a MOLECULE marker the parser consumes the marker and exactly the
\* next two lines verbatim, the tokens of the second of them become the
\* counts vector in order, and section_index is unchanged.
C22_MoleculePrefetch ==
    [][ReadsMolecule =>
          /\ g'.pos = g.pos + 3
          /\ g'.lines = g.lines \o SubSeq(stream, g.pos + 1, g.pos + 3)
          /\ g'.tripos_counts = stream[g.pos + 3].c
          /\ g'.tripos_state = g.tripos_state]_vars

C22_Witness ==
    /\ gen = "hdr"
    /\ g.ret = "loop"
    /\ g.pos = 5
    /\ g.tripos_counts = <<2, 1, 1, 0>>
    /\ g.tripos_state = 0
    /\ stream[4] = SecLine
    /\ Len(g.lines) = 5

\* the call is about to read a section marker other than MOLECULE whose
\* count is declared and whose lines are all there
ReadsSection ==
    /\ g.ret = "loop"
    /\ g.pos < Len(stream)
    /\ stream[g.pos + 1].k = "sec"
    /\ g.tripos_state < Len(g.tripos_counts)
    /\ LeftAfterNext >= g.tripos_counts[g.tripos_state + 1]

\* C23: on any other section marker the parser consumes the marker, then
\* exactly counts[section_index] further lines, then adds one to
\* section_index: the k-th section of a record uses the k-th declared count.
C23_SectionBody ==
    [][ReadsSection =>
          LET n == g.tripos_counts[g.tripos_state + 1]
          IN  /\ g'.pos = g.pos + 1 + n
              /\ g'.lines = g.lines \o SubSeq(stream, g.pos + 1, g.pos + 1 + n)
              /\ g'.tripos_state = g.tripos_state + 1
              /\ g'.tripos_counts = g.tripos_counts]_vars

C23_Witness ==
    /\ gen = "wf"
    /\ g.ret = "some"
    /\ g.tripos_counts = <<0, 2, 0>>
    /\ g.tripos_state = 2
    /\ Len(g.lines) = 9
    /\ g.lines[7] = SecLine
    /\ g.lines[9] = TextLine

\* the call is about to read counts[section_index] where counts has no such
\* entry: a section marker with no count declared for it (before any
\* MOLECULE marker, or past the end of the counts), a section after which no
\* entry is left, or a MOLECULE marker whose counts are too short for the
\* sections already consumed
ReadsMissingCount ==
    /\ g.ret = "loop"
    /\ g.pos < Len(stream)
    /\ \/ /\ stream[g.pos + 1].k = "sec"
          /\ g.tripos_state >= Len(g.tripos_counts)
       \/ /\ ReadsSection
          /\ g.tripos_state + 1 >= Len(g.tripos_counts)
       \/ /\ ReadsMolecule
          /\ g.tripos_state > 0
          /\ g.tripos_state >= Len(stream[g.pos + 3].c)

\* C29: when the parser would read counts[section_index] with section_index
\* not an index of counts, the call fails: no record is yielded and the
\* missing entry is not taken as zero.
C29_MissingCountIsFatal ==
    [][ReadsMissingCount => (g'.ret = "panic" /\ yielded' = yielded)]_vars

C29_Witness ==
    /\ g.ret = "panic"
    /\ g.tripos_state = 1
    /\ g.tripos_counts = <<0>>
    /\ yielded = <<>>

\* C30: the lines consumed by the two-line MOLECULE prefetch or as the body
\* of a section are only appended to the payload: whatever they look like,
\* the step changes neither id nor energy, a section step leaves the counts
\* and adds one to section_index, a MOLECULE step leaves section_index and
\* takes the counts from the second prefetched line.
C30_BodyLinesNotInterpreted ==
    [][(g.ret = "loop" /\ g.pos < Len(stream) /\ stream[g.pos + 1].k \in {"mol", "sec"}
            /\ g'.ret \in {"loop", "some"}) =>
          /\ g'.name = g.name
          /\ g'.energy = g.energy
          /\ g'.lines = g.lines \o SubSeq(stream, g.pos + 1, g'.pos)
          /\ stream[g.pos + 1].k = "sec" =>
                /\ g'.tripos_counts = g.tripos_counts
                /\ g'.tripos_state = g.tripos_state + 1
                /\ g'.pos = g.pos + 1 + g.tripos_counts[g.tripos_state + 1]
          /\ stream[g.pos + 1].k = "mol" =>
                /\ g'.tripos_state = g.tripos_state
                /\ g'.tripos_counts = stream[g.pos + 3].c
                /\ g'.pos = g.pos + 3]_vars

C30_Witness ==
    /\ gen = "hdr"
    /\ Len(yielded) = 2
    /\ yielded[2].name = "b"
    /\ yielded[2].energy = 2
    /\ \E i \in 1..Len(yielded[2].lines) :
          /\ yielded[2].lines[i] = NameLine("z")
          /\ yielded[2].lines[i - 1] = SecLine

(* ==================== claims about the pipelines ======================= *)
RECURSIVE ReadAll(_, _)
\* the records a reader yields on stream s from position pos, until it stops
ReadAll(s, pos) ==
    LET r == GetMol2(s, pos)
    IN  IF r.ret = "some" THEN <<MolOf(r)>> \o ReadAll(s, r.pos) ELSE <<>>

\* the records the parser yields on the file at a path
RecordsOf(path) ==
    IF FileAt(path).readable THEN ReadAll(FileAt(path).lines, 0) ELSE <<>>

RECURSIVE SumSeq(_)
SumSeq(s) == IF s = <<>> THEN 0 ELSE Head(s) + SumSeq(Tail(s))

\* the active predicate of the run, on a record
Accepts(mol) ==
    IF table.shape = "set" THEN mol.name \in table.keys
    ELSE mol.name \in table.keys /\ mol.energy - table.target[mol.name] <= tol

AcceptedOf(path) == SelectSeq(RecordsOf(path), Accepts)

TotalRecords == SumSeq([i \in 1..Len(files) |-> Len(RecordsOf(files[i]))])

TotalAccepted == SumSeq([i \in 1..Len(files) |-> Len(AcceptedOf(files[i]))])

Occurrences(s, x) == Cardinality({i \in 1..Len(s) : s[i] = x})

AcceptedPayloads == Flatten([i \in 1..Len(files) |->
                        [k \in 1..Len(AcceptedOf(files[i])) |-> AcceptedOf(files[i])[k].lines]])

SomeProducerFailed == \E w \in Workers : wk[w].st = "panicked"

\* C1: when a producer fails to open its file or the parser fails in a file,
\* the run aborts: the operation does not return a normal result.
C1_FailureAbortsRun == SomeProducerFailed => result # "ok"

\* C2: when filter reports its totals, processed is the number of records the
\* parser yields over all input files and accepted the number of those that
\* satisfy the active predicate.
C2_TotalsExact == result = "ok" => reported = <<TotalRecords, TotalAccepted>>

\* C2 in the runs in which no producer fails.
C2_TotalsExactWithoutFailure ==
    (result = "ok" /\ ~SomeProducerFailed) => reported = <<TotalRecords, TotalAccepted>>

\* C3: the payloads written are those of the accepted records, each once and
\* unmodified, no other payload is written, and their number is the final
\* accepted count.
C3_WrittenAreAccepted ==
    /\ \A i \in 1..Len(written) :
          Occurrences(written, written[i]) <= Occurrences(AcceptedPayloads, written[i])
    /\ result = "ok" =>
          /\ \A i \in 1..Len(AcceptedPayloads) :
                Occurrences(written, AcceptedPayloads[i])
                    = Occurrences(AcceptedPayloads, AcceptedPayloads[i])
          /\ Len(written) = reported[2]

\* C3 in the runs in which no producer fails.
C3_WrittenAreAcceptedWithoutFailure == ~SomeProducerFailed => C3_WrittenAreAccepted

ShardSize(i, total, nf) == Cardinality({k \in 0..(total - 1) : k % nf = i})

\* C9: the count vector split returns has length num_files, sums to the
\* number of records of all input files, and shard i holds the number of k in
\* 0..total-1 with k mod num_files = i.
C9_ShardCounts ==
    result = "ok" =>
        /\ Len(reported) = num_files
        /\ SumSeq(reported) = TotalRecords
        /\ \A i \in 0..(num_files - 1) : reported[i + 1] = ShardSize(i, TotalRecords, num_files)

\* C9 in the runs in which no producer fails.
C9_ShardCountsWithoutFailure == ~SomeProducerFailed => C9_ShardCounts

\* the payload of a drained record, read back from its file
DrainedPayload(k) == RecordsOf(files[drained[k].file])[drained[k].idx].lines

\* the drained records whose place in drain order (from 0) is i modulo nf
DrainedTo(i, nf) == SelectSeq([k \in 1..Len(drained) |-> k], LAMBDA k : (k - 1) % nf = i)

\* C10: the k-th record drained (from 0, in drain order) is written to output
\* stream k mod num_files and to no other: each stream holds exactly the
\* payloads of the drained records of its residue class, in drain order.
C10_RoundRobinByDrainOrder ==
    /\ Len(writer_vec) = num_files
    /\ split_count = Len(drained)
    /\ \A i \in 0..(num_files - 1) :
          writer_vec[i + 1] = [j \in 1..Len(DrainedTo(i, num_files)) |->
                                  DrainedPayload(DrainedTo(i, num_files)[j])]

C10_Witness ==
    /\ num_files = 2
    /\ Len(drained) >= 3
    /\ drained[1].file = 2
    /\ drained[2].file = 1
    /\ Len(writer_vec[1]) = 2

(* ================= claims about the pipelines' order =================== *)
\* the records that reached the channel, in arrival order: those drained,
\* then those still in the channel
Arrived == [k \in 1..Len(drained) |-> [file |-> drained[k].file, idx |-> drained[k].idx]]
           \o [k \in 1..Len(chan) |-> [file |-> chan[k].file, idx |-> chan[k].idx]]

\* C24: of two records of one input file the earlier in the file is drained
\* first, under every interleaving of the producers (records of different
\* files may come in either order).
C24_FileOrderPreserved ==
    /\ \A i, j \in 1..Len(drained) :
          (i < j /\ drained[i].file = drained[j].file) => drained[i].idx < drained[j].idx
    /\ \A i, j \in 1..Len(Arrived) :
          (i < j /\ Arrived[i].file = Arrived[j].file) => Arrived[i].idx < Arrived[j].idx

C24_Witness ==
    /\ Len(drained) = 4
    /\ drained[1].file = 2
    /\ drained[2].file = 1
    /\ drained[3].file = 2
    /\ drained[4].file = 1
    /\ drained[1].idx = 1
    /\ drained[3].idx = 2

\* how many of the records that reached the channel are record k of file i
ArrivalsOf(i, k) ==
    Cardinality({n \in 1..Len(Arrived) : Arrived[n].file = i /\ Arrived[n].idx = k})

\* C25: every input file is parsed by one producer, once, from its first
\* line to the end: no two producers hold the same file, no record is sent
\* twice, and when the operation returns every record of every file of the
\* list was sent and drained once: no file was skipped.
C25_EachFileParsedOnce ==
    /\ \A w, v \in Workers : (w # v /\ wk[w].file # 0) => wk[w].file # wk[v].file
    /\ \A w \in Workers : wk[w].file <= iter
    /\ \A n \in 1..Len(Arrived) : ArrivalsOf(Arrived[n].file, Arrived[n].idx) = 1
    /\ result = "ok" =>
          \A i \in 1..Len(files) : \A k \in 1..Len(RecordsOf(files[i])) :
              Cardinality({n \in 1..Len(drained) : drained[n].file = i /\ drained[n].idx = k}) = 1

\* C25 in the runs in which no producer fails.
C25_EachFileParsedOnceWithoutFailure == ~SomeProducerFailed => C25_EachFileParsedOnce

(* ================ claims about the shared counters ===================== *)
\* the additions made to one shared counter, in order
MergesTo(c) == SelectSeq(merges, LAMBDA m : m.counter = c)

\* how many additions file i made to counter c
MergeCount(c, i) == Cardinality({n \in 1..Len(MergesTo(c)) : MergesTo(c)[n].file = i})

\* the subtotal file i owes to counter c
SubtotalOf(c, i) ==
    IF c = "num_molecules" THEN Len(RecordsOf(files[i])) ELSE Len(AcceptedOf(files[i]))

\* C26: the shared counters change only by a producer's addition under the
\* lock; each addition is the subtotal of one file, made after that file was
\* consumed to its end, at most once per file and counter, and none is lost;
\* when filter returns each file has made its addition to each counter, so
\* each counter is the sum of the per-file subtotals.
C26_SubtotalsMergedOnce ==
    /\ num_molecules = SumSeq([n \in 1..Len(MergesTo("num_molecules")) |->
                                  MergesTo("num_molecules")[n].add])
    /\ num_passing = SumSeq([n \in 1..Len(MergesTo("num_passing")) |->
                                MergesTo("num_passing")[n].add])
    /\ \A n \in 1..Len(merges) :
          /\ merges[n].pos = Len(FileAt(files[merges[n].file]).lines)
          /\ merges[n].add = SubtotalOf(merges[n].counter, merges[n].file)
          /\ MergeCount(merges[n].counter, merges[n].file) = 1
    /\ result = "ok" =>
          /\ \A i \in 1..Len(files) : \A c \in {"num_molecules", "num_passing"} :
                MergeCount(c, i) = 1
          /\ num_molecules = SumSeq([i \in 1..Len(files) |-> SubtotalOf("num_molecules", i)])
          /\ num_passing = SumSeq([i \in 1..Len(files) |-> SubtotalOf("num_passing", i)])

\* C26 in the runs in which no producer fails.
C26_SubtotalsMergedOnceWithoutFailure == ~SomeProducerFailed => C26_SubtotalsMergedOnce

\* C28: in every state of filter the accepted counter is at most the
\* processed counter: a producer's accepted subtotal never exceeds its
\* processed subtotal, and a producer that has not yet added its accepted
\* subtotal has already added the processed one.
C28_PassingAtMostMolecules ==
    /\ num_passing <= num_molecules
    /\ \A w \in Workers : wk[w].np <= wk[w].nm
    /\ \A n \in 1..Len(merges) :
          merges[n].counter = "num_passing" =>
              \E m \in 1..(n - 1) :
                  /\ merges[m].counter = "num_molecules"
                  /\ merges[m].file = merges[n].file
                  /\ merges[n].add <= merges[m].add

\* a producer with an accepted record has added its processed subtotal and
\* not yet its accepted one
C28_Witness ==
    /\ op = "grep"
    /\ \E w \in Workers :
          /\ wk[w].st = "merge_passing"
          /\ wk[w].np >= 1
          /\ num_molecules >= wk[w].nm
          /\ num_passing + wk[w].np <= num_molecules

(* ================= claims about the shards of split ==================== *)
\* C31: in every state of split the count vector sums to the running count
\* and shard i counts the k below the running count with k mod num_files = i,
\* as many as were written to its stream; so two shard counts differ by at
\* most 1 and a lower-indexed shard never holds fewer than a higher-indexed.
C31_ShardsBalanced ==
    /\ Len(count_vec) = num_files
    /\ SumSeq(count_vec) = split_count
    /\ split_count = Len(drained)
    /\ \A i \in 0..(num_files - 1) :
          /\ count_vec[i + 1] = ShardSize(i, split_count, num_files)
          /\ count_vec[i + 1] = Len(writer_vec[i + 1])
    /\ \A i, j \in 1..num_files :
          /\ count_vec[i] - count_vec[j] <= 1
          /\ i < j => count_vec[i] >= count_vec[j]

\* three records are drained into two shards: the counts are 2 and 1
C31_Witness ==
    /\ op = "split"
    /\ num_files = 2
    /\ split_count = 3
    /\ count_vec = <<2, 1>>

(* ===================== claims about termination ======================== *)
\* the records the producers send in a run over files that all parse
RecordsSent == IF op = "grep" THEN TotalAccepted ELSE TotalRecords

\* the consumer has left its loop with the channel closed and empty and every
\* record sent drained
ConsumerDone ==
    /\ result = "ok"
    /\ SendersDropped
    /\ iter = Len(files)
    /\ chan = <<>>
    /\ Len(drained) = RecordsSent

\* C27: over a list of files that all open and parse, a producer that is
\* reading can always take its next step whatever the channel holds, the
\* consumer does not return while a producer still holds a Sender or a record
\* is in the channel, and under fair scheduling the consumer of each operation
\* returns with every file finished and every record sent drained.
C27_ConsumerLoopTerminates == AllFilesParse ~> ConsumerDone

\* an operation over two files that parse has returned with four records
\* drained, or two under grep's query
C27_Witness ==
    /\ AllFilesParse
    /\ Len(files) = 2
    /\ ConsumerDone
    /\ Len(drained) >= 2

(* ====================== claims about tabulate ========================== *)
\* the rows of the output, without the header line
TableRows == SelectSeq(written, LAMBDA r : r.kind = "row")

\* C11: the header line, when enabled, is written before any row; the i-th
\* row written (from 0) carries id i; and the total reported is the number of
\* rows written, which is the number of records the parser yields over the
\* input files.
C11_TabulateRows ==
    /\ \A i \in 1..Len(written) : written[i].kind = "header" <=> (write_header /\ i = 1)
    /\ \A i \in 1..Len(TableRows) : TableRows[i].id = i - 1
    /\ result = "ok" =>
          /\ reported = <<Len(TableRows)>>
          /\ Len(TableRows) = TotalRecords

\* C11 in the runs in which the producer does not fail.
C11_TabulateRowsWithoutFailure == ~SomeProducerFailed => C11_TabulateRows

\* what one producer walking the list from file i sends, in order: every
\* record of each file in turn, up to the first file that does not open or
\* the first record that does not parse
RECURSIVE SentInOrder(_)
SentInOrder(i) ==
    IF i > Len(files) \/ ~FileAt(files[i]).readable THEN <<>>
    ELSE [k \in 1..Len(RecordsOf(files[i])) |->
              [file |-> i, idx |-> k, mol |-> RecordsOf(files[i])[k]]]
         \o (IF ParsesToEnd(FileAt(files[i]).lines, 0) THEN SentInOrder(i + 1) ELSE <<>>)

\* the output tabulate writes for its inputs
TableOutput ==
    (IF write_header THEN <<HeaderRow>> ELSE <<>>)
    \o [k \in 1..Len(SentInOrder(1)) |-> Row(k - 1, SentInOrder(1)[k].mol)]

IsPrefix(s, t) == Len(s) <= Len(t) /\ \A k \in 1..Len(s) : s[k] = t[k]

QCols(i) == Len(SplitItems(query.lines[i]))

\* the column count of the first physical line; 0 for an empty file
FirstCols == IF query.lines = <<>> THEN 0 ELSE QCols(1)

\* the loader has stopped: it returned a table, or failed
QrStopped == qr.ret \in {"ok", "panic"}

\* C12: the loader picks the shape from the column count of the first line:
\* 1 column gives a NameSet, 2 columns give a NameEnergyMap (a set is never
\* built, and the map is returned when every line has two columns and a
\* numeric second column), any other count is fatal and leaves no table.
C12_ShapeFromFirstLine ==
    qr.ret # "idle" =>
        /\ FirstCols = 1 => (qr.shape = "set" /\ qr.ret # "panic")
        /\ FirstCols = 2 =>
              /\ qr.shape = "map"
              /\ (QrStopped /\ \A i \in 1..Len(query.lines) :
                                  QCols(i) = 2 /\ F64Parses(SplitItems(query.lines[i])[2]))
                    => qr.ret = "ok"
        /\ FirstCols \notin {1, 2} => (qr.ret = "panic" /\ qr.shape = "" /\ qr.keys = {})
        /\ qr.ret = "ok" => TableOf(qr).shape = (IF FirstCols = 1 THEN "set" ELSE "map")

C12_Witness ==
    /\ qr.ret = "panic"
    /\ FirstCols = 3
    /\ Len(query.lines) = 3
    /\ QCols(2) = 1
    /\ QCols(3) = 2

\* the index of the first line of the query file that is not blank, 0 if none
FirstNonBlank ==
    IF \E i \in 1..Len(query.lines) : QCols(i) > 0
    THEN CHOOSE i \in 1..Len(query.lines) : QCols(i) > 0 /\ \A j \in 1..(i - 1) : QCols(j) = 0
    ELSE 0

\* C13 as stated: the shape is selected from the column count of the first
\* non-empty line: after leading blank lines a 1-column line loads a NameSet
\* and a 2-column line a NameEnergyMap.
C13_ShapeFromFirstNonEmptyLine ==
    (qr.ret # "idle" /\ FirstNonBlank > 0) =>
        /\ QCols(FirstNonBlank) = 1 => qr.shape = "set"
        /\ QCols(FirstNonBlank) = 2 => qr.shape = "map"

\* C13 amended: the shape is selected from the column count of the first
\* physical line; a file whose first line is blank fails to load whatever
\* follows, and no table is built.
C13_ShapeFromFirstPhysicalLine ==
    qr.ret # "idle" =>
        /\ (query.lines # <<>> /\ QCols(1) = 0) =>
              (qr.ret = "panic" /\ qr.pos = 1 /\ qr.shape = "" /\ qr.keys = {})
        /\ (query.lines # <<>> /\ QCols(1) \in {1, 2}) =>
              qr.shape = (IF QCols(1) = 1 THEN "set" ELSE "map")

C13_Witness ==
    /\ Len(query.lines) = 3
    /\ QCols(1) = 0
    /\ QCols(2) = 0
    /\ QCols(3) = 1
    /\ qr.ret = "panic"

\* line i of the query file has two or more columns, the second not a number
BadEnergyAt(i) == QCols(i) >= 2 /\ ~F64Parses(SplitItems(query.lines[i])[2])

\* C15: in a 2-column query file a non-numeric energy column on any line,
\* the first or a later one, aborts the load: the loader fails at that line,
\* reads nothing after it, and returns no table.
C15_BadEnergyIsFatal ==
    qr.shape = "map" =>
        /\ \A i \in 1..qr.pos : BadEnergyAt(i) => (qr.ret = "panic" /\ qr.pos = i)
        /\ qr.ret = "ok" => \A i \in 1..Len(query.lines) : ~BadEnergyAt(i)

C15_Witness ==
    /\ qr.shape = "map"
    /\ qr.ret = "panic"
    /\ qr.pos = 2
    /\ BadEnergyAt(2)
    /\ Len(query.lines) = 3
    /\ QCols(3) = 2
    /\ qr.keys = {"a"}

\* the id a consumed line contributes: the whole trimmed line in a set, the
\* first column in a map
IdOfLine(i) ==
    IF qr.shape = "set" THEN ConcatStr(Trim(query.lines[i])) ELSE SplitItems(query.lines[i])[1]

\* the last consumed line that carries id k
LastLineOf(k) ==
    CHOOSE i \in 1..qr.pos : IdOfLine(i) = k /\ \A j \in (i + 1)..qr.pos : IdOfLine(j) # k

\* C16: after a load that returned a table, a set holds exactly the distinct
\* trimmed ids of the lines, each once; a map holds exactly the distinct ids,
\* each with the energy of the last line that carries it.
C16_DuplicatesCollapse ==
    qr.ret = "ok" =>
        /\ qr.pos = Len(query.lines)
        /\ qr.keys = {IdOfLine(i) : i \in 1..qr.pos}
        /\ qr.shape = "map" =>
              /\ DOMAIN qr.target = qr.keys
              /\ \A k \in qr.keys : qr.target[k] = ParseF64(SplitItems(query.lines[LastLineOf(k)])[2])

C16_Witness ==
    /\ qr.ret = "ok"
    /\ qr.shape = "map"
    /\ Len(query.lines) = 3
    /\ IdOfLine(1) = "a"
    /\ IdOfLine(3) = "a"
    /\ IdOfLine(2) = "b"
    /\ SplitItems(query.lines[1])[2] = "5"
    /\ qr.target["a"] = 7

\* the loader failed on its last line for the energy column, not the width
FailedOnEnergy == qr.pos >= 1 /\ BadEnergyAt(qr.pos)

\* C17: one shape is active and the first line alone fixes it: later lines
\* are not re-validated, so their column count never fails the load and never
\* changes the shape; a set takes each later line whole, trimmed, as one id,
\* a map takes the first two columns of each later line.
C17_FirstLineFixesShape ==
    qr.shape # "" =>
        /\ qr.shape = (IF FirstCols = 1 THEN "set" ELSE "map")
        /\ qr.shape = "set" =>
              (qr.ret # "panic" /\ qr.keys = {ConcatStr(Trim(query.lines[i])) : i \in 1..qr.pos})
        /\ qr.shape = "map" =>
              /\ qr.ret = "panic" => FailedOnEnergy
              /\ qr.ret # "panic" => qr.keys = {SplitItems(query.lines[i])[1] : i \in 1..qr.pos}

\* every line after the first has two or more columns
LaterLinesWide == \A i \in 2..Len(query.lines) : QCols(i) >= 2

\* C17 for the query files in which a 2-column first line is followed only by
\* lines of two or more columns.
C17_FirstLineFixesShapeWideLines ==
    (FirstCols = 2 => LaterLinesWide) => C17_FirstLineFixesShape

\* C33: in a 2-column query file a line after the first with fewer than two
\* columns, a blank line included, aborts the load: the loader fails at that
\* line with the table as the lines before it left it, reads nothing after
\* it, and returns no table.
C33_NarrowLineIsFatal ==
    qr.shape = "map" =>
        /\ \A i \in 2..qr.pos :
              QCols(i) < 2 =>
                  /\ qr.ret = "panic"
                  /\ qr.pos = i
                  /\ qr.keys = {SplitItems(query.lines[j])[1] : j \in 1..(i - 1)}
        /\ qr.ret = "ok" => \A i \in 2..Len(query.lines) : QCols(i) >= 2

\* the load failed at a blank second line, with a 2-column line after it
C33_Witness ==
    /\ qr.shape = "map"
    /\ qr.ret = "panic"
    /\ qr.pos = 2
    /\ QCols(2) = 0
    /\ Len(query.lines) = 3
    /\ QCols(3) = 2
    /\ F64Parses(SplitItems(query.lines[3])[2])
    /\ qr.keys = {"a"}

(* ================== claims about grep and its query ==================== *)
\* no producer was started and no input file was opened
NothingStarted ==
    /\ \A w \in Workers : wk[w] = Unspawned
    /\ iter = 0
    /\ chan = <<>>
    /\ written = <<>>
    /\ num_molecules = 0

\* C14: when the query file is malformed (first-line column count outside
\* {1,2}, or an energy column that does not parse) filter aborts before any
\* producer is started and before any input file is opened; producers run
\* only once the table is loaded.
C14_MalformedQueryAbortsFirst ==
    /\ result = "panic" => (qr.ret = "panic" /\ NothingStarted)
    /\ result = "loading" => NothingStarted
    /\ ~NothingStarted => (qr.ret = "ok" /\ table = TableOf(qr))

C14_Witness ==
    /\ result = "panic"
    /\ qr.shape = "map"
    /\ qr.pos = 2
    /\ Len(files) = 2
    /\ FileAt(files[1]).readable

\* record k of file i has no Name header: its id is the empty string
Nameless(i, k) == RecordsOf(files[i])[k].name = ""

\* the producer w has counted record k of its file
Counted(w, k) ==
    /\ wk[w].st \in {"read", "merge_molecules", "merge_passing"}
    /\ k <= wk[w].nm

\* file i was read to its end and its subtotals added
Merged(i) == \E n \in 1..Len(merges) : merges[n].file = i /\ merges[n].counter = "num_passing"

\* C34: a 1-column query file loads whatever its later lines hold: a blank
\* line after the first puts the empty id into the set; with the empty id
\* in the set filter accepts every record that has no Name header: once a
\* producer has counted such a record it has reached the channel, and when
\* filter returns every such record of a file read to its end is written.
C34_BlankLineAcceptsNameless ==
    /\ (qr.ret # "idle" /\ FirstCols = 1) =>
          /\ qr.ret = "ok"
          /\ qr.pos = Len(query.lines)
          /\ (\E i \in 2..Len(query.lines) : QCols(i) = 0) =>
                ("" \in qr.keys /\ (result # "loading" => "" \in table.keys))
    /\ (table.shape = "set" /\ "" \in table.keys) =>
          /\ \A w \in Workers : \A k \in 1..wk[w].nm :
                (Counted(w, k) /\ Nameless(wk[w].file, k)) => ArrivalsOf(wk[w].file, k) = 1
          /\ result = "ok" =>
                \A i \in 1..Len(files) : \A k \in 1..Len(RecordsOf(files[i])) :
                    (Merged(i) /\ Nameless(i, k)) =>
                        \E n \in 1..Len(drained) : drained[n].file = i /\ drained[n].idx = k

\* filter has returned over the file with a nameless record, the query
\* being the id a and a blank line: both the nameless record and the record
\* named a are written
C34_Witness ==
    /\ result = "ok"
    /\ query.lines = <<<<"a", "\n">>, <<"\n">>>>
    /\ table.keys = {"a", ""}
    /\ files = <<"anon", "two">>
    /\ Nameless(1, 1)
    /\ \E n \in 1..Len(drained) : drained[n].file = 1 /\ drained[n].idx = 1
    /\ Len(drained) = 2
    /\ reported = <<4, 2>>

(* ================== claims about record identity ======================= *)
\* C18: two records are equal, and hash identically, iff their ids are equal,
\* whatever their energies and payloads; a record is found in a NameSet or a
\* NameEnergyMap iff its id is a key, so two records of one id are found or
\* missed together.
C18_IdentityById ==
    ident.done =>
        /\ ident.eq <=> probe.name = other.name
        /\ ident.hash <=> probe.name = other.name
        /\ ident.found <=> probe.name \in table.keys
        /\ ident.found <=> GrepWithSetPasses(probe, table)
        /\ probe.name = other.name => ident.found = ident.other_found

C18_Witness ==
    /\ ident.done
    /\ ident.eq
    /\ ident.hash
    /\ ident.found
    /\ probe.name = "b"
    /\ probe.energy # other.energy
    /\ probe.lines # other.lines
    /\ probe.energy # table.target["b"]

====
